---------------------------- MODULE Spec2Model ----------------------------
(***************************************************************************)
(* Model of the grid package's linear ODE boundary-value solver            *)
(* (src/src/grid/ode.py) and of its spherical-harmonic interpolation       *)
(* (src/src/grid/interpolate.py).                                          *)
(*                                                                         *)
(* Numbers: numpy floats are represented by integers.  A tolerance is      *)
(* counted in units of 1e-6 (1e-4 is 100).  A value drawn by               *)
(* np.random.rand lies in [0,1) and is represented by a level in RandVals  *)
(* (level k stands for k/2); a caller's guess may hold any level, also 2   *)
(* and above (1.0 and above).                                              *)
(* Arrays are sequences, 1-based: python's a[i] is a[i+1] here.            *)
(***************************************************************************)
EXTENDS Integers, Sequences, FiniteSets, TLC

(***************************************************************************)
(* Bounds of the model.                                                    *)
(***************************************************************************)
MaxCoeffs == 5      \* longest coefficient list of a solve_ode call (K = 4)
MaxBd == 4          \* longest boundary-condition list of a solve_ode call
MeshSize == 2       \* number N of mesh points
MaxEvals == 1       \* evaluations of bc that solve_bvp makes at most
MaxCoeffVal == 2    \* largest constant coefficient given to the transformer
MaxCalls == 2       \* calls of _rearrange_to_explicit_ode on the same arrays
MaxL == 2           \* largest l_max given to the harmonic generators
MaxAngles == 2      \* longest list of angles (theta, phi)
NumPoints == 3      \* number N of grid points given to the projection
MaxShells == 2      \* largest number K of radial shells
MaxAxis == 3        \* most points on an axis of a tensor-product grid

(***************************************************************************)
(* Program constants.                                                      *)
(***************************************************************************)
DefaultTol == 100         \* tol: float = 1e-4, in units of 1e-6
DefaultMaxNodes == 5000   \* max_nodes: int = 5000
HardCodedTol == 100       \* solve_bvp(..., tol=1e-4), in units of 1e-6
MaxOrder == 3             \* if order > 3: raise
MaxDeriv == 3             \* elif 1 <= deriv <= 3
TinyRadius == 1000        \* sph_coor[0, 0] < 1.0e-12, in units of 1e-15

None == "None"

VARIABLES
    pc,         \* position of the solve_ode call
    args,       \* the arguments of the solve_ode call
    bvp,        \* the arguments solve_ode handed to solve_bvp
    bvpCalls,   \* number of times solve_bvp was invoked in this call
    bcRes,      \* the values bc(ya, yb) returned to solve_bvp, in order
    res,        \* the result object solve_bvp returned
    outcome,    \* what the solve_ode call returned or raised
    t_pc,       \* position of the caller of the coefficient transformer
    t_in,       \* the arguments of the coefficient transformer
    t_out,      \* what the coefficient transformer returned or raised
    heap,       \* the arrays y, coeff_b and fx of the caller, as they are now
    heap0,      \* the same arrays as the caller built them
    r_results,  \* what the calls of _rearrange_to_explicit_ode returned
    i_mode,     \* which functions the caller is exercising (interpolate.py,
                \* the coordinate conversion, the grid index conversions)
    i_in,       \* the arguments the caller holds for them
    i_calls     \* the calls made so far, with their results

odeVars == <<pc, args, bvp, bvpCalls, bcRes, res, outcome>>

trVars == <<t_pc, t_in, t_out>>

reVars == <<heap, heap0, r_results>>

inVars == <<i_mode, i_in, i_calls>>

vars == <<odeVars, trVars, reVars, inVars>>

(***************************************************************************)
(* Python helpers.                                                         *)
(***************************************************************************)
\* The attributes class ODE defines (the def statements of the class body).
ODE_attrs ==
    { "solve_ode",
      "_transform_ode_from_derivs",
      "_transform_ode_from_rtransform",
      "_transform_and_rearrange_to_explicit_ode",
      "_construct_coeff_array",
      "_rearrange_to_explicit_ode" }

\* Evaluating the expression ODE.<name>: the attribute, or AttributeError.
GetAttr(name) ==
    IF name \in ODE_attrs
    THEN [raised |-> None, attr |-> name]
    ELSE [raised |-> "AttributeError", attr |-> name]

(***************************************************************************)
(* ODE._construct_coeff_array(x, coeff): row i is coeff[i] at every mesh   *)
(* point; a constant is broadcast, a callable is sampled at x.  A          *)
(* coefficient is [kind |-> "const", val |-> c] for the number c and       *)
(* [kind |-> "func", fn |-> f] for a callable whose value at the point p   *)
(* is f[p].                                                                *)
(***************************************************************************)
Const(c) == [kind |-> "const", val |-> c]

IsNumber(val) == val.kind = "const"

\* Mutant: the array is built with the mesh axis first.
_construct_coeff_array_Transposed(x, coeff) ==
    [n \in 1..Len(x) |->
        [i \in 1..Len(coeff) |->
            IF IsNumber(coeff[i]) THEN 0 + coeff[i].val ELSE 0 + coeff[i].fn[x[n]]]]

_construct_coeff_array(x, coeff) ==
    [i \in 1..Len(coeff) |->
        [n \in 1..Len(x) |->
            IF IsNumber(coeff[i]) THEN 0 + coeff[i].val ELSE 0 + coeff[i].fn[x[n]]]]

\* Applying a callable to the mesh: a callable is the table of its values.
Sample(f, r) == [n \in 1..Len(r) |-> f[r[n]]]

(***************************************************************************)
(* ODE._transform_ode_from_derivs.  The names a function body may use are  *)
(* its parameters, the locals it has assigned, and the names of the        *)
(* module; any other name raises NameError when it is evaluated.           *)
(***************************************************************************)
ModuleNames ==
    {"Number", "Union", "BaseTransform", "np", "solve_bvp", "bell", "ODE"}

Unbound(name, scope) == name \notin (DOMAIN scope) \cup ModuleNames

NameError(name) == [raised |-> "NameError", name |-> name, value |-> <<>>]

\* Lines 177-209 with deriv_func_list, coeff_a and r bound: the body.
TransformBody(coeff_a, deriv_func_list, r) ==
    LET derivs == [d \in 1..Len(deriv_func_list) |-> Sample(deriv_func_list[d], r)]
        total == Len(coeff_a)
        coeff_a_mtr == _construct_coeff_array(r, coeff_a)
        b0(n) == coeff_a_mtr[1][n]
        b1(n) == (IF total > 1 THEN coeff_a_mtr[2][n] * derivs[1][n] ELSE 0)
                 + (IF total > 2 THEN coeff_a_mtr[3][n] * derivs[2][n] ELSE 0)
                 + (IF total > 3 THEN coeff_a_mtr[4][n] * derivs[3][n] ELSE 0)
        b2(n) == (IF total > 2
                  THEN coeff_a_mtr[3][n] * derivs[1][n] * derivs[1][n] ELSE 0)
                 + (IF total > 3
                    THEN coeff_a_mtr[4][n] * 3 * derivs[1][n] * derivs[2][n] ELSE 0)
        b3(n) == IF total > 3
                 THEN coeff_a_mtr[4][n] * derivs[1][n] * derivs[1][n] * derivs[1][n]
                 ELSE 0
    IN  [j \in 1..total |->
            [n \in 1..Len(r) |->
                CASE j = 1 -> b0(n)
                  [] j = 2 -> b1(n)
                  [] j = 3 -> b2(n)
                  [] j = 4 -> b3(n)
                  [] OTHER -> 0]]

\* def _transform_ode_from_derivs(coeffs, deriv_transformation, r): the body
\* reads deriv_func_list (line 177) and coeff_a (line 178).
_transform_ode_from_derivs(coeffs, deriv_transformation, r) ==
    LET scope == [coeffs |-> coeffs,
                  deriv_transformation |-> deriv_transformation, r |-> r] IN
    IF Unbound("deriv_func_list", scope) THEN NameError("deriv_func_list")
    ELSE IF Unbound("coeff_a", scope) THEN NameError("coeff_a")
    ELSE [raised |-> None, name |-> None,
          value |-> TransformBody(scope.coeff_a, scope.deriv_func_list, scope.r)]

\* ODE._transform_ode_from_rtransform(coeff_a, tf, x), lines 247-249.
_transform_ode_from_rtransform(coeff_a, tf, x) ==
    LET deriv_func == <<tf.deriv, tf.deriv2, tf.deriv3>>
        r == Sample(tf.inverse, x)
    IN  _transform_ode_from_derivs(coeff_a, deriv_func, r)

(***************************************************************************)
(* ODE._rearrange_to_explicit_ode(y, coeff_b, fx), lines 342-347.  The     *)
(* arguments are numpy arrays, passed by reference: the operator returns   *)
(* the returned array (ret) and the arrays of the caller after the call.   *)
(* "result = fx" binds result to the caller's array, and "result -= ..."   *)
(* on an ndarray subtracts in place.  An entry of the returned array is    *)
(* the quotient num/den, kept as the pair <<num, den>>.                    *)
(***************************************************************************)
RECURSIVE RearrangeLoop(_, _, _, _)
\* The for loop over coeff_b[:-1], from its row i on, on the array result.
RearrangeLoop(i, result, y, coeff_b) ==
    IF i > Len(coeff_b) - 1
    THEN result
    ELSE RearrangeLoop(i + 1,
                       [n \in 1..Len(result) |-> result[n] - coeff_b[i][n] * y[i][n]],
                       y, coeff_b)

_rearrange_to_explicit_ode(y, coeff_b, fx) ==
    LET result == RearrangeLoop(1, fx, y, coeff_b) IN
    [ret |-> [n \in 1..Len(result) |-> <<result[n], coeff_b[Len(coeff_b)][n]>>],
     y |-> y, coeff_b |-> coeff_b, fx |-> result]

(***************************************************************************)
(* solve_ode, lines 104-111: the validation.                               *)
(***************************************************************************)
order_of(coeffs) == Len(coeffs) - 1

\* Mutant: the count check rejects only too many boundary conditions.
Validate_TooManyOnly(coeffs, bd_cond) ==
    LET order == order_of(coeffs) IN
    IF Len(bd_cond) > order
    THEN [raised |-> "NotImplementedError",
          msg |-> "# of boundary condition need to be the same as ODE order.",
          fields |-> [expect |-> order, got |-> Len(bd_cond)]]
    ELSE IF order > MaxOrder
    THEN [raised |-> "NotImplementedError",
          msg |-> "Only support 3rd order ODE or less.",
          fields |-> <<>>]
    ELSE [raised |-> None, msg |-> None, fields |-> <<>>]

\* Mutant: the order check is off by one (order > 4).
Validate_OrderOffByOne(coeffs, bd_cond) ==
    LET order == order_of(coeffs) IN
    IF Len(bd_cond) # order
    THEN [raised |-> "NotImplementedError",
          msg |-> "# of boundary condition need to be the same as ODE order.",
          fields |-> [expect |-> order, got |-> Len(bd_cond)]]
    ELSE IF order > MaxOrder + 1
    THEN [raised |-> "NotImplementedError",
          msg |-> "Only support 3rd order ODE or less.",
          fields |-> <<>>]
    ELSE [raised |-> None, msg |-> None, fields |-> <<>>]

\* Mutant: an order below 1 is rejected as well.
Validate_PositiveOrder(coeffs, bd_cond) ==
    LET order == order_of(coeffs) IN
    IF Len(bd_cond) # order
    THEN [raised |-> "NotImplementedError",
          msg |-> "# of boundary condition need to be the same as ODE order.",
          fields |-> [expect |-> order, got |-> Len(bd_cond)]]
    ELSE IF order > MaxOrder \/ order < 1
    THEN [raised |-> "NotImplementedError",
          msg |-> "Only support 3rd order ODE or less.",
          fields |-> <<>>]
    ELSE [raised |-> None, msg |-> None, fields |-> <<>>]

Validate(coeffs, bd_cond) ==
    LET order == order_of(coeffs) IN
    IF Len(bd_cond) # order
    THEN [raised |-> "NotImplementedError",
          msg |-> "# of boundary condition need to be the same as ODE order.",
          fields |-> [expect |-> order, got |-> Len(bd_cond)]]
    ELSE IF order > MaxOrder
    THEN [raised |-> "NotImplementedError",
          msg |-> "Only support 3rd order ODE or less.",
          fields |-> <<>>]
    ELSE [raised |-> None, msg |-> None, fields |-> <<>>]

(***************************************************************************)
(* solve_ode.func, lines 114-120: the first-order system.  Python          *)
(* evaluates the callee expression ODE.<name> before the arguments.        *)
(***************************************************************************)
func(x, y, coeffs, transform) ==
    IF transform # None
    THEN LET callee == GetAttr("_rearrange_trans_ode") IN
         IF callee.raised # None
         THEN [raised |-> callee.raised, attr |-> callee.attr, value |-> None]
         ELSE [raised |-> None, attr |-> None, value |-> "dy_dx"]
    ELSE LET coeffs_mt == _construct_coeff_array(x, coeffs)
             callee == GetAttr("_rearrange_ode") IN
         IF callee.raised # None
         THEN [raised |-> callee.raised, attr |-> callee.attr, value |-> None]
         ELSE [raised |-> None, attr |-> None, value |-> "dy_dx"]

(***************************************************************************)
(* solve_ode.bc, lines 123-128: the boundary residual.  ya and yb are the  *)
(* state at the first and at the last mesh point.                          *)
(***************************************************************************)
\* Mutant: every residual reads component 0 of the state.
bc_ComponentZero(ya, yb, bd_cond) ==
    LET bonds == <<ya, yb>> IN
    [c \in 1..Len(bd_cond) |-> bonds[bd_cond[c][1] + 1][1] - bd_cond[c][3]]

bc(ya, yb, bd_cond) ==
    LET bonds == <<ya, yb>> IN
    [c \in 1..Len(bd_cond) |->
        bonds[bd_cond[c][1] + 1][bd_cond[c][2] + 1] - bd_cond[c][3]]

Column(y, n) == [d \in 1..Len(y) |-> y[d][n]]

(***************************************************************************)
(* solve_ode, lines 130-131: the guess and the delegation.                 *)
(***************************************************************************)
RandVals == {0, 1}

RandMatrices(rows, cols) == [1..rows -> [1..cols -> RandVals]]

\* The guess handed to solve_bvp: y = np.random.rand(order, x.size).
GuessPassed(a, rand) == rand

\* The keyword arguments of the call solve_bvp(func, bc, x, y, tol=1e-4):
\* a record with one field for each keyword the call passes.
BvpKeywords(a) == [tol |-> HardCodedTol]

BvpArguments(a, rand) ==
    [fun |-> "func", bc |-> "bc", x |-> a.x, y |-> GuessPassed(a, rand),
     kw |-> BvpKeywords(a)]

(***************************************************************************)
(* solve_ode, lines 133-137: what follows the return of solve_bvp.         *)
(***************************************************************************)
\* Mutant: status 1 (too many mesh nodes) is taken for success.
AfterSolve_StatusOneAccepted(status) ==
    IF status # 0 /\ status # 1
    THEN [pc |-> "failed",
          out |-> [kind |-> "raise", type |-> "ValueError",
                   msg |-> "The ode solver didn't converge, got status: ",
                   fields |-> [status |-> status]]]
    ELSE [pc |-> "converged",
          out |-> [kind |-> "return", type |-> "res.sol",
                   msg |-> None, fields |-> <<>>]]

\* Mutant: a non-zero status starts the call over instead of raising.
AfterSolve_Retry(status) ==
    IF status # 0
    THEN [pc |-> "setup",
          out |-> [kind |-> None, type |-> None, msg |-> None, fields |-> <<>>]]
    ELSE [pc |-> "converged",
          out |-> [kind |-> "return", type |-> "res.sol",
                   msg |-> None, fields |-> <<>>]]

AfterSolve(status) ==
    IF status # 0
    THEN [pc |-> "failed",
          out |-> [kind |-> "raise", type |-> "ValueError",
                   msg |-> "The ode solver didn't converge, got status: ",
                   fields |-> [status |-> status]]]
    ELSE [pc |-> "converged",
          out |-> [kind |-> "return", type |-> "res.sol",
                   msg |-> None, fields |-> <<>>]]

(***************************************************************************)
(* The inputs of the calls.                                                *)
(***************************************************************************)
Mesh == [n \in 1..MeshSize |-> n - 1]

CoeffLists == { [k \in 1..n |-> Const(k)] : n \in 0..MaxCoeffs }

BdTriples == << <<0, 0, 0>>, <<1, 0, 1>> >>

\* The boundary-condition lists: conditions on y itself at alternating
\* endpoints, and lists whose k-th condition is on the derivative k - 1.
BdLists ==
    { [k \in 1..n |-> BdTriples[((k + s) % 2) + 1]] : n \in 0..MaxBd, s \in 0..1 }
       \cup { [k \in 1..n |-> <<k % 2, k - 1, k>>] : n \in 0..MaxBd }

TolSet == {DefaultTol, 1}

MaxNodesSet == {DefaultMaxNodes, 1000}

Rows(coeffs) == IF order_of(coeffs) > 0 THEN order_of(coeffs) ELSE 0

\* initial_guess_y: None, or an array of shape (order, N).
NoGuess == [given |-> FALSE, val |-> <<>>]

Guesses(coeffs) ==
    {NoGuess} \cup
    { [given |-> TRUE,
       val |-> [d \in 1..Rows(coeffs) |-> [n \in 1..MeshSize |-> 2]]] }

Transforms == {None, "tf"}

\* The statuses scipy's solve_bvp documents: 0 converged, 1 too many mesh
\* nodes, 2 singular Jacobian, 3 tolerance not met on the boundary residual.
BvpStatuses == 0..3

(***************************************************************************)
(* The solve_ode call as a state machine.                                  *)
(***************************************************************************)
NoArgs ==
    [x |-> <<>>, coeffs |-> <<>>, bd_cond |-> <<>>, transform |-> None,
     tol |-> DefaultTol, max_nodes |-> DefaultMaxNodes,
     initial_guess_y |-> NoGuess]

NoBvp == [fun |-> None, bc |-> None, x |-> <<>>, y |-> <<>>, kw |-> <<>>]

NoRes == [returned |-> FALSE, status |-> 0]

NoOutcome == [kind |-> None, type |-> None, msg |-> None, fields |-> <<>>]

InitOdeIdle ==
    /\ pc = "idle"
    /\ args = NoArgs
    /\ bvp = NoBvp
    /\ bvpCalls = 0
    /\ bcRes = <<>>
    /\ res = NoRes
    /\ outcome = NoOutcome

NoTransformInput == [coeffs |-> <<>>, tf |-> <<>>, r |-> <<>>]

NoTransformOutput == [raised |-> None, name |-> None, value |-> <<>>]

InitTrIdle ==
    /\ t_pc = "idle"
    /\ t_in = NoTransformInput
    /\ t_out = NoTransformOutput

InitReIdle ==
    /\ heap = [y |-> <<>>, coeff_b |-> <<>>, fx |-> <<>>]
    /\ heap0 = heap
    /\ r_results = <<>>

InitInIdle ==
    /\ i_mode = "idle"
    /\ i_in = <<>>
    /\ i_calls = {}

\* The caller calls ODE.solve_ode(x, fx, coeffs, bd_cond, transform, tol,
\* max_nodes, initial_guess_y).
Call ==
    /\ pc = "idle"
    /\ \E coeffs \in CoeffLists, bd_cond \in BdLists, transform \in Transforms,
          tol \in TolSet, max_nodes \in MaxNodesSet :
         \E guess \in Guesses(coeffs) :
            args' = [x |-> Mesh, coeffs |-> coeffs, bd_cond |-> bd_cond,
                     transform |-> transform, tol |-> tol,
                     max_nodes |-> max_nodes, initial_guess_y |-> guess]
    /\ pc' = "setup"
    /\ UNCHANGED <<bvp, bvpCalls, bcRes, res, outcome, trVars, reVars, inVars>>

\* Lines 104-131 up to the entry into solve_bvp.
Setup ==
    /\ pc = "setup"
    /\ LET v == Validate(args.coeffs, args.bd_cond) IN
       IF v.raised # None
       THEN /\ pc' = "rejected"
            /\ outcome' = [kind |-> "raise", type |-> v.raised, msg |-> v.msg,
                           fields |-> v.fields]
            /\ UNCHANGED <<bvp, bvpCalls>>
       ELSE /\ \E rand \in RandMatrices(order_of(args.coeffs), Len(args.x)) :
                  bvp' = BvpArguments(args, rand)
            /\ bvpCalls' = bvpCalls + 1
            /\ pc' = "solving"
            /\ UNCHANGED outcome
    /\ UNCHANGED <<args, bcRes, res, trVars, reVars, inVars>>

\* solve_bvp evaluates the system fun(x, y) it was handed.  An exception of
\* the callback leaves solve_bvp and solve_ode.
BvpEvalFunc ==
    /\ pc = "solving"
    /\ LET f == func(bvp.x, bvp.y, args.coeffs, args.transform) IN
       IF f.raised # None
       THEN /\ pc' = "crashed"
            /\ outcome' = [kind |-> "raise", type |-> f.raised,
                           msg |-> "type object 'ODE' has no attribute ",
                           fields |-> [attr |-> f.attr]]
       ELSE UNCHANGED <<pc, outcome>>
    /\ UNCHANGED <<args, bvp, bvpCalls, bcRes, res, trVars, reVars, inVars>>

\* solve_bvp evaluates the boundary residual bc(ya, yb) it was handed.
BvpEvalBc ==
    /\ pc = "solving"
    /\ Len(bcRes) < MaxEvals
    /\ bcRes' = Append(bcRes,
                       bc(Column(bvp.y, 1), Column(bvp.y, Len(bvp.x)), args.bd_cond))
    /\ UNCHANGED <<pc, args, bvp, bvpCalls, res, outcome, trVars, reVars, inVars>>

\* solve_bvp returns its result with a status; lines 133-137 follow.
BvpReturn ==
    /\ pc = "solving"
    /\ \E status \in BvpStatuses :
         /\ res' = [returned |-> TRUE, status |-> status]
         /\ pc' = AfterSolve(status).pc
         /\ outcome' = AfterSolve(status).out
    /\ UNCHANGED <<args, bvp, bvpCalls, bcRes, trVars, reVars, inVars>>

NextODE == Call \/ Setup \/ BvpEvalFunc \/ BvpEvalBc \/ BvpReturn

InitODE == InitOdeIdle /\ InitTrIdle /\ InitReIdle /\ InitInIdle

Spec == InitODE /\ [][NextODE]_vars

(***************************************************************************)
(* The coefficient transformer, called on its own.                         *)
(***************************************************************************)
CoeffVals == 1..MaxCoeffVal

\* The coefficient lists a_0..a_K of the orders K = 0..3.
TransformCoeffLists ==
    UNION { [1..n -> {Const(c) : c \in CoeffVals}] : n \in 1..(MaxOrder + 1) }

\* Transform objects: the tables of inverse, deriv, deriv2 and deriv3 over
\* the points 0..MeshSize.  "identity" is g(r) = r; "shift" is g(r) = r - 1;
\* "curved" has all three derivatives non-zero.
Points == 0..MeshSize

TransformObjects ==
    { [name |-> "identity", inverse |-> [p \in Points |-> p],
       deriv |-> [p \in Points |-> 1], deriv2 |-> [p \in Points |-> 0],
       deriv3 |-> [p \in Points |-> 0]],
      [name |-> "shift", inverse |-> [p \in Points |-> IF p < MeshSize THEN p + 1 ELSE p],
       deriv |-> [p \in Points |-> 1], deriv2 |-> [p \in Points |-> 0],
       deriv3 |-> [p \in Points |-> 0]],
      [name |-> "curved", inverse |-> [p \in Points |-> p],
       deriv |-> [p \in Points |-> p + 2], deriv2 |-> [p \in Points |-> p + 1],
       deriv3 |-> [p \in Points |-> 3]] }

InitTransform ==
    /\ InitOdeIdle
    /\ InitReIdle
    /\ InitInIdle
    /\ t_pc = "ready"
    /\ \E coeffs \in TransformCoeffLists, tf \in TransformObjects :
          t_in = [coeffs |-> coeffs, tf |-> tf, r |-> Mesh]
    /\ t_out = NoTransformOutput

\* The caller calls ODE._transform_ode_from_derivs(coeffs, derivs, r) with
\* derivs the list of the three derivatives of the transform.
CallTransformFromDerivs ==
    /\ t_pc = "ready"
    /\ t_out' = _transform_ode_from_derivs(
                    t_in.coeffs, <<t_in.tf.deriv, t_in.tf.deriv2, t_in.tf.deriv3>>,
                    t_in.r)
    /\ t_pc' = "from_derivs"
    /\ UNCHANGED <<t_in, odeVars, reVars, inVars>>

\* The caller calls ODE._transform_ode_from_rtransform(coeff_a, tf, x).
CallTransformFromRtransform ==
    /\ t_pc = "ready"
    /\ t_out' = _transform_ode_from_rtransform(t_in.coeffs, t_in.tf, t_in.r)
    /\ t_pc' = "from_rtransform"
    /\ UNCHANGED <<t_in, odeVars, reVars, inVars>>

NextTransform == CallTransformFromDerivs \/ CallTransformFromRtransform

SpecTransform == InitTransform /\ [][NextTransform]_vars

(***************************************************************************)
(* _rearrange_to_explicit_ode, called twice on the same arrays.            *)
(***************************************************************************)
RowsOver(lo) == { [n \in 1..MeshSize |-> c] : c \in lo..(lo + 1) }
                    \cup { [n \in 1..MeshSize |-> lo + n - 1] }

RearrangeInputs ==
    UNION { [y : [1..k -> RowsOver(0)], coeff_b : [1..(k + 1) -> RowsOver(1)],
             fx : RowsOver(0)] : k \in 0..(MaxOrder - 1) }

InitRearrange ==
    /\ InitOdeIdle
    /\ InitTrIdle
    /\ InitInIdle
    /\ heap \in RearrangeInputs
    /\ heap0 = heap
    /\ r_results = <<>>

\* The caller calls ODE._rearrange_to_explicit_ode(y, coeff_b, fx) on its arrays.
CallRearrange ==
    /\ Len(r_results) < MaxCalls
    /\ LET r == _rearrange_to_explicit_ode(heap.y, heap.coeff_b, heap.fx) IN
         /\ r_results' = Append(r_results, r.ret)
         /\ heap' = [y |-> r.y, coeff_b |-> r.coeff_b, fx |-> r.fx]
    /\ UNCHANGED <<heap0, odeVars, trVars, inVars>>

NextRearrange == CallRearrange

SpecRearrange == InitRearrange /\ [][NextRearrange]_vars

(***************************************************************************)
(* interpolate.py.  Numbers.  A float is NaN or a number a + b*sqrt(2)     *)
(* with integers a and b: the real harmonics carry the factor sqrt(2) of   *)
(* lines 135-139, and these numbers are closed under the sums and          *)
(* products the module makes.  A complex number is NaN or re + im*1j with  *)
(* integers re and im.  An ndarray is its shape and its nested rows.       *)
(***************************************************************************)
Real(a, b) == [nan |-> FALSE, a |-> a, b |-> b]

Num(a) == Real(a, 0)

NaN == [nan |-> TRUE, a |-> 0, b |-> 0]

RAdd(x, y) == IF x.nan \/ y.nan THEN NaN ELSE Real(x.a + y.a, x.b + y.b)

RMul(x, y) ==
    IF x.nan \/ y.nan THEN NaN
    ELSE Real(x.a * y.a + 2 * x.b * y.b, x.a * y.b + x.b * y.a)

Complex(re, im) == [nan |-> FALSE, re |-> re, im |-> im]

CNaN == [nan |-> TRUE, re |-> 0, im |-> 0]

CAdd(z, w) == IF z.nan \/ w.nan THEN CNaN ELSE Complex(z.re + w.re, z.im + w.im)

CSub(z, w) == IF z.nan \/ w.nan THEN CNaN ELSE Complex(z.re - w.re, z.im - w.im)

\* np.conjugate
conjugate(z) == IF z.nan THEN CNaN ELSE Complex(z.re, 0 - z.im)

\* The store of a complex number into the float array s_h_r keeps its real
\* part (the ComplexWarning the code silences, lines 131-132).
CastToFloat(z) == IF z.nan THEN NaN ELSE Num(z.re)

\* The real part of z / np.sqrt(2), which is (z.re / 2) * sqrt(2); the code
\* divides sums z + conj(z), whose real part is even.
CastDivSqrt2(z) == IF z.nan THEN NaN ELSE Real(0, z.re \div 2)

\* The real part of z / (np.sqrt(2) * 1j), which is (z.im / 2) * sqrt(2);
\* the code divides differences z - conj(z), whose imaginary part is even.
CastDivSqrt2J(z) == IF z.nan THEN NaN ELSE Real(0, z.im \div 2)

\* np.arange(a, b)
arange(a, b) == [i \in 1..(IF b > a THEN b - a ELSE 0) |-> a + i - 1]

\* The indices a python slice [start:stop] selects on an axis of length n.
SliceBound(i, n) ==
    IF i < 0 THEN (IF i + n < 0 THEN 0 ELSE i + n) ELSE (IF i > n THEN n ELSE i)

Slice(start, stop, n) ==
    { i \in 0..(n - 1) : SliceBound(start, n) <= i /\ i < SliceBound(stop, n) }

\* The slice [start:], whose stop is the end of the axis.
SliceFrom(start, n) == Slice(start, n, n)

\* Mutant: NaN entries are left in the array.
nan_to_num_Keep(arr) == arr

\* np.nan_to_num on an array of three axes: NaN becomes 0.
nan_to_num(arr) ==
    [shape |-> arr.shape,
     data |-> [i \in 1..arr.shape[1] |-> [j \in 1..arr.shape[2] |->
                 [n \in 1..arr.shape[3] |->
                    IF arr.data[i][j][n].nan THEN Num(0) ELSE arr.data[i][j][n]]]]]

(***************************************************************************)
(* scipy.special.sph_harm(m, l, theta, phi), the library function of line  *)
(* 99.  It is NaN for an order |m| above the degree l and for a NaN        *)
(* angle; elsewhere it is a table of values that are real for m = 0 and    *)
(* obey the symmetry of the spherical harmonics,                           *)
(* Y_l^{-m} = (-1)^m conj(Y_l^m).                                           *)
(***************************************************************************)
Abs(m) == IF m < 0 THEN 0 - m ELSE m

SphHarmTable(m, l, theta, phi) ==
    Complex(1 + l + m + theta.a, IF m = 0 THEN 0 ELSE m + phi.a)

sph_harm(m, l, theta, phi) ==
    IF Abs(m) > l \/ theta.nan \/ phi.nan THEN CNaN
    ELSE IF m >= 0 THEN SphHarmTable(m, l, theta, phi)
    ELSE LET c == conjugate(SphHarmTable(0 - m, l, theta, phi)) IN
         IF m % 2 = 0 THEN c ELSE Complex(0 - c.re, 0 - c.im)

(***************************************************************************)
(* _generate_sph_paras, lines 118-122.                                     *)
(***************************************************************************)
\* Mutant: the orders run from -l_max to l_max.
_generate_sph_paras_Ascending(l_max) ==
    [l_list |-> arange(0, l_max + 1), m_list |-> arange(0 - l_max, l_max + 1)]

_generate_sph_paras(l_max) ==
    LET l_list == arange(0, l_max + 1)
        m_list_p == arange(0, l_max + 1)
        m_list_n == arange(0 - l_max, 0)
        m_list == m_list_p \o m_list_n
    IN [l_list |-> l_list, m_list |-> m_list]

(***************************************************************************)
(* generate_sph_harms, lines 96-99: sph_harm broadcast over the orders     *)
(* (axis 0), the degrees (axis 1) and the angles (axis 2).                 *)
(***************************************************************************)
generate_sph_harms(l_max, theta, phi) ==
    LET paras == _generate_sph_paras(l_max)
        l == paras.l_list
        m == paras.m_list
    IN [shape |-> <<Len(m), Len(l), Len(theta)>>,
        data |-> [i \in 1..Len(m) |-> [j \in 1..Len(l) |-> [n \in 1..Len(theta) |->
                    sph_harm(m[i], l[j], theta[n], phi[n])]]]]

(***************************************************************************)
(* _convert_ylm_to_zlm, lines 125-141.  The three stores into s_h_r are    *)
(* made in the order of the code; the last, s_h_r[0] = sp_harm_arrs[0],    *)
(* indexes row 0 and raises IndexError on an array without rows.           *)
(***************************************************************************)
Returned(value) == [raised |-> None, value |-> value]

Raised(type) == [raised |-> type, value |-> <<>>]

\* (rows + np.conjugate(rows)) / np.sqrt(2) on one row of the order axis
PositiveRow(row) ==
    [j \in DOMAIN row |-> [n \in DOMAIN row[j] |->
        CastDivSqrt2(CAdd(row[j][n], conjugate(row[j][n])))]]

\* (rows - np.conjugate(rows)) / (np.sqrt(2) * 1j) on one row of the order axis
NegativeRow(row) ==
    [j \in DOMAIN row |-> [n \in DOMAIN row[j] |->
        CastDivSqrt2J(CSub(row[j][n], conjugate(row[j][n])))]]

ZeroRow(row) == [j \in DOMAIN row |-> [n \in DOMAIN row[j] |-> CastToFloat(row[j][n])]]

\* Mutant: row 0 is stored first, before the two slices.
_convert_ylm_to_zlm_RowZeroFirst(sp_harm_arrs) ==
    LET ms == sp_harm_arrs.shape[1]
        ls == sp_harm_arrs.shape[2]
        arrs == sp_harm_arrs.shape[3]
        a == sp_harm_arrs.data
        s0 == [i \in 1..ms |-> [j \in 1..ls |-> [n \in 1..arrs |-> Num(0)]]]
        s1 == [i \in 1..ms |-> IF i = 1 THEN ZeroRow(a[1]) ELSE s0[i]]
        s2 == [i \in 1..ms |->
                 IF (i - 1) \in Slice(1, ls, ms) THEN PositiveRow(a[i]) ELSE s1[i]]
        s3 == [i \in 1..ms |->
                 IF (i - 1) \in SliceFrom(1 - ls, ms) THEN NegativeRow(a[i]) ELSE s2[i]]
    IN IF ms = 0 THEN Raised("IndexError")
       ELSE Returned([shape |-> <<ms, ls, arrs>>, data |-> s3])

\* Mutant: row 0 is stored only when the array has a row.
_convert_ylm_to_zlm_NoIndexError(sp_harm_arrs) ==
    LET ms == sp_harm_arrs.shape[1]
        ls == sp_harm_arrs.shape[2]
        arrs == sp_harm_arrs.shape[3]
        a == sp_harm_arrs.data
        s0 == [i \in 1..ms |-> [j \in 1..ls |-> [n \in 1..arrs |-> Num(0)]]]
        s1 == [i \in 1..ms |->
                 IF (i - 1) \in Slice(1, ls, ms) THEN PositiveRow(a[i]) ELSE s0[i]]
        s2 == [i \in 1..ms |->
                 IF (i - 1) \in SliceFrom(1 - ls, ms) THEN NegativeRow(a[i]) ELSE s1[i]]
        s3 == [i \in 1..ms |-> IF i = 1 THEN ZeroRow(a[1]) ELSE s2[i]]
    IN Returned([shape |-> <<ms, ls, arrs>>, data |-> s3])

_convert_ylm_to_zlm(sp_harm_arrs) ==
    LET ms == sp_harm_arrs.shape[1]
        ls == sp_harm_arrs.shape[2]
        arrs == sp_harm_arrs.shape[3]
        a == sp_harm_arrs.data
        \* s_h_r = np.zeros((ms, ls, arrs))
        s0 == [i \in 1..ms |-> [j \in 1..ls |-> [n \in 1..arrs |-> Num(0)]]]
        \* s_h_r[1:ls] = ...
        s1 == [i \in 1..ms |->
                 IF (i - 1) \in Slice(1, ls, ms) THEN PositiveRow(a[i]) ELSE s0[i]]
        \* s_h_r[-ls + 1 :] = ...
        s2 == [i \in 1..ms |->
                 IF (i - 1) \in SliceFrom(1 - ls, ms) THEN NegativeRow(a[i]) ELSE s1[i]]
        \* s_h_r[0] = sp_harm_arrs[0]
        s3 == [i \in 1..ms |-> IF i = 1 THEN ZeroRow(a[1]) ELSE s2[i]]
    IN IF ms = 0 THEN Raised("IndexError")
       ELSE Returned([shape |-> <<ms, ls, arrs>>, data |-> s3])

(***************************************************************************)
(* generate_real_sph_harms, lines 69-71.                                   *)
(***************************************************************************)
generate_real_sph_harms(l_max, theta, phi) ==
    LET sph_h == generate_sph_harms(l_max, theta, phi)
        z == _convert_ylm_to_zlm(sph_h)
    IN IF z.raised # None THEN z ELSE Returned(nan_to_num(z.value))

(***************************************************************************)
(* project_function_onto_spherical_expansion, lines 294-301.               *)
(***************************************************************************)
RECURSIVE RSum(_, _)
\* np.sum and np.einsum: the sum of the floats f[x] over x in S.
RSum(f, S) ==
    IF S = {} THEN Num(0)
    ELSE LET x == CHOOSE x \in S : TRUE IN RAdd(f[x], RSum(f, S \ {x}))

\* np.stack of a python list of (M, L) arrays; it raises on an empty list.
stack(axis_value, M, L) ==
    IF Len(axis_value) = 0 THEN Raised("ValueError")
    ELSE Returned([shape |-> <<Len(axis_value), M, L>>, data |-> axis_value])

\* Mutant: the weights are left out of the product.
project_function_onto_spherical_expansion_NoWeights(sph_harm_arr, value_arrays, weights, indices) ==
    LET M == sph_harm_arr.shape[1]
        L == sph_harm_arr.shape[2]
        N == sph_harm_arr.shape[3]
        prod_value == [m \in 1..M |-> [l \in 1..L |-> [n \in 1..N |->
                         RMul(sph_harm_arr.data[m][l][n], value_arrays[n])]]]
        axis_value == [i \in 1..(Len(indices) - 1) |-> [m \in 1..M |-> [l \in 1..L |->
                         RSum([n \in 0..(N - 1) |-> prod_value[m][l][n + 1]],
                              Slice(indices[i], indices[i + 1], N))]]]
        stacked == stack(axis_value, M, L)
    IN IF stacked.raised # None THEN stacked ELSE Returned(nan_to_num(stacked.value))

\* Mutant: every shell is summed from the first point on.
project_function_onto_spherical_expansion_Cumulative(sph_harm_arr, value_arrays, weights, indices) ==
    LET M == sph_harm_arr.shape[1]
        L == sph_harm_arr.shape[2]
        N == sph_harm_arr.shape[3]
        prod_value == [m \in 1..M |-> [l \in 1..L |-> [n \in 1..N |->
                         RMul(RMul(sph_harm_arr.data[m][l][n], value_arrays[n]), weights[n])]]]
        axis_value == [i \in 1..(Len(indices) - 1) |-> [m \in 1..M |-> [l \in 1..L |->
                         RSum([n \in 0..(N - 1) |-> prod_value[m][l][n + 1]],
                              Slice(0, indices[i + 1], N))]]]
        stacked == stack(axis_value, M, L)
    IN IF stacked.raised # None THEN stacked ELSE Returned(nan_to_num(stacked.value))

\* Mutant: NaN is removed from the terms before the shells are summed.
project_function_onto_spherical_expansion_NanFirst(sph_harm_arr, value_arrays, weights, indices) ==
    LET M == sph_harm_arr.shape[1]
        L == sph_harm_arr.shape[2]
        N == sph_harm_arr.shape[3]
        prod_value == [m \in 1..M |-> [l \in 1..L |-> [n \in 1..N |->
                         LET t == RMul(RMul(sph_harm_arr.data[m][l][n], value_arrays[n]),
                                       weights[n])
                         IN IF t.nan THEN Num(0) ELSE t]]]
        axis_value == [i \in 1..(Len(indices) - 1) |-> [m \in 1..M |-> [l \in 1..L |->
                         RSum([n \in 0..(N - 1) |-> prod_value[m][l][n + 1]],
                              Slice(indices[i], indices[i + 1], N))]]]
        stacked == stack(axis_value, M, L)
    IN IF stacked.raised # None THEN stacked ELSE Returned(nan_to_num(stacked.value))

\* Mutant: an empty shell is rejected.
project_function_onto_spherical_expansion_RejectsEmptyShell(sph_harm_arr, value_arrays, weights, indices) ==
    LET M == sph_harm_arr.shape[1]
        L == sph_harm_arr.shape[2]
        N == sph_harm_arr.shape[3]
        prod_value == [m \in 1..M |-> [l \in 1..L |-> [n \in 1..N |->
                         RMul(RMul(sph_harm_arr.data[m][l][n], value_arrays[n]), weights[n])]]]
        axis_value == [i \in 1..(Len(indices) - 1) |-> [m \in 1..M |-> [l \in 1..L |->
                         RSum([n \in 0..(N - 1) |-> prod_value[m][l][n + 1]],
                              Slice(indices[i], indices[i + 1], N))]]]
        stacked == stack(axis_value, M, L)
    IN IF \E i \in 1..(Len(indices) - 1) : indices[i] = indices[i + 1]
       THEN Raised("ValueError")
       ELSE IF stacked.raised # None THEN stacked ELSE Returned(nan_to_num(stacked.value))

project_function_onto_spherical_expansion(sph_harm_arr, value_arrays, weights, indices) ==
    LET M == sph_harm_arr.shape[1]
        L == sph_harm_arr.shape[2]
        N == sph_harm_arr.shape[3]
        \* prod_value = sph_harm * value_arrays * weights
        prod_value == [m \in 1..M |-> [l \in 1..L |-> [n \in 1..N |->
                         RMul(RMul(sph_harm_arr.data[m][l][n], value_arrays[n]), weights[n])]]]
        \* for i in range(len(indices) - 1): np.sum(prod_value[:, :, a:b], axis=-1)
        axis_value == [i \in 1..(Len(indices) - 1) |-> [m \in 1..M |-> [l \in 1..L |->
                         RSum([n \in 0..(N - 1) |-> prod_value[m][l][n + 1]],
                              Slice(indices[i], indices[i + 1], N))]]]
        stacked == stack(axis_value, M, L)
    IN IF stacked.raised # None THEN stacked ELSE Returned(nan_to_num(stacked.value))

(***************************************************************************)
(* spline_with_sph_harms, lines 193-202.  A quotient is kept as the pair   *)
(* <<numerator, denominator>>.  CubicSpline is scipy's constructor: the    *)
(* spline object is the pair of the arguments x and y it was built from.   *)
(***************************************************************************)
CubicSpline(x, y) == [x |-> x, y |-> y]

\* Mutant: the divisor is r_k * w_k.
spline_with_sph_harms_NotSquared(sph_harm_arr, value_arrays, weights, indices, radial) ==
    LET ml == project_function_onto_spherical_expansion(sph_harm_arr, value_arrays,
                                                        weights, indices)
    IN IF ml.raised # None THEN ml
       ELSE LET ml_sph_value == ml.value
                divisor == [k \in 1..Len(radial.points) |->
                              radial.points[k] * radial.weights[k]]
                ml_sph_value_with_r ==
                   [shape |-> ml_sph_value.shape,
                    data |-> [k \in 1..ml_sph_value.shape[1] |->
                                [m \in 1..ml_sph_value.shape[2] |->
                                   [l \in 1..ml_sph_value.shape[3] |->
                                      <<ml_sph_value.data[k][m][l], divisor[k]>>]]]]
            IN Returned(CubicSpline(radial.points, ml_sph_value_with_r))

spline_with_sph_harms(sph_harm_arr, value_arrays, weights, indices, radial) ==
    LET ml == project_function_onto_spherical_expansion(sph_harm_arr, value_arrays,
                                                        weights, indices)
    IN IF ml.raised # None THEN ml
       ELSE LET ml_sph_value == ml.value
                \* (radial.points**2 * radial.weights)
                divisor == [k \in 1..Len(radial.points) |->
                              radial.points[k] * radial.points[k] * radial.weights[k]]
                \* ml_sph_value / divisor[:, None, None]
                ml_sph_value_with_r ==
                   [shape |-> ml_sph_value.shape,
                    data |-> [k \in 1..ml_sph_value.shape[1] |->
                                [m \in 1..ml_sph_value.shape[2] |->
                                   [l \in 1..ml_sph_value.shape[3] |->
                                      <<ml_sph_value.data[k][m][l], divisor[k]>>]]]]
            IN Returned(CubicSpline(radial.points, ml_sph_value_with_r))

(***************************************************************************)
(* interpolate_given_splines, lines 353-373.  Calling the spline object is *)
(* scipy's: at a knot x_k the spline itself is the data row y_k it was     *)
(* built from, and its derivative of order nu is a value of its own, one   *)
(* for every order.  The result records the calls made to the spline.      *)
(***************************************************************************)
SplineAtKnot(spline, r, nu) ==
    LET k == CHOOSE k \in 1..Len(spline.x) : spline.x[k] = r IN
    [m \in 1..spline.y.shape[2] |-> [l \in 1..spline.y.shape[3] |->
        IF nu = 0 THEN spline.y.data[k][m][l]
        ELSE RAdd(spline.y.data[k][m][l], Num(10 * nu))]]

\* spline(r_points, nu): an array (M, L) for a scalar r_points and an array
\* (len(r_points), M, L) for an array.  r_points is kept as the list v of
\* its numbers, one number for a scalar.
SplineCall(spline, r_points, nu) ==
    IF r_points.scalar
    THEN [shape |-> <<spline.y.shape[2], spline.y.shape[3]>>,
          data |-> SplineAtKnot(spline, r_points.v[1], nu)]
    ELSE [shape |-> <<Len(r_points.v), spline.y.shape[2], spline.y.shape[3]>>,
          data |-> [i \in 1..Len(r_points.v) |-> SplineAtKnot(spline, r_points.v[i], nu)]]

InvalidArgument(fields) ==
    [raised |-> "ValueError", fields |-> fields, value |-> <<>>, evals |-> <<>>]

\* Mutant: the contraction sums the degrees l of the row m = 0 only.
Contract_RowZeroOnly(r_value, r_points, theta, phi, evals) ==
    LET rank == Len(r_value.shape)
        l_max == r_value.shape[rank] - 1
        r_sph_harm == generate_real_sph_harms(l_max, theta, phi)
        ML == {1} \X (1..r_value.shape[rank])
        einsum(coefficients) ==
           [k \in 1..Len(theta) |->
              RSum([p \in ML |-> RMul(r_sph_harm.value.data[p[1]][p[2]][k],
                                      coefficients[p[1]][p[2]])], ML)]
    IN IF r_sph_harm.raised # None
       THEN [raised |-> r_sph_harm.raised, fields |-> <<>>, value |-> <<>>, evals |-> evals]
       ELSE [raised |-> None, fields |-> <<>>, evals |-> evals,
             value |-> IF r_points.scalar
                       THEN einsum(r_value.data)
                       ELSE [n \in 1..r_value.shape[1] |-> einsum(r_value.data[n])]]

\* Lines 362-373: the harmonics of the angles and their contraction with
\* the values of the spline.
Contract(r_value, r_points, theta, phi, evals) ==
    LET rank == Len(r_value.shape)
        l_max == r_value.shape[rank] - 1
        r_sph_harm == generate_real_sph_harms(l_max, theta, phi)
        ML == (1..r_value.shape[rank - 1]) \X (1..r_value.shape[rank])
        \* np.einsum("mlk,ml->k", r_sph_harm, coefficients)
        einsum(coefficients) ==
           [k \in 1..Len(theta) |->
              RSum([p \in ML |-> RMul(r_sph_harm.value.data[p[1]][p[2]][k],
                                      coefficients[p[1]][p[2]])], ML)]
    IN IF r_sph_harm.raised # None
       THEN [raised |-> r_sph_harm.raised, fields |-> <<>>, value |-> <<>>, evals |-> evals]
       ELSE [raised |-> None, fields |-> <<>>, evals |-> evals,
             value |-> IF r_points.scalar
                       THEN einsum(r_value.data)
                       ELSE [n \in 1..r_value.shape[1] |-> einsum(r_value.data[n])]]

\* Mutant: the spline is evaluated before the lengths are compared.
interpolate_given_splines_EvaluatesFirst(spline, r_points, theta, phi, deriv) ==
    IF Len(theta) # Len(phi)
    THEN [raised |-> "ValueError", fields |-> <<Len(theta), Len(phi)>>, value |-> <<>>,
          evals |-> <<<<r_points>>>>]
    ELSE IF deriv = 0
    THEN Contract(SplineCall(spline, r_points, 0), r_points, theta, phi, <<<<r_points>>>>)
    ELSE IF 1 <= deriv /\ deriv <= MaxDeriv
    THEN Contract(SplineCall(spline, r_points, deriv), r_points, theta, phi,
                  <<<<r_points, deriv>>>>)
    ELSE InvalidArgument(<<deriv>>)

\* Mutant: the derivative orders 1 and 2 only are accepted.
interpolate_given_splines_DerivBelowThree(spline, r_points, theta, phi, deriv) ==
    IF Len(theta) # Len(phi)
    THEN InvalidArgument(<<Len(theta), Len(phi)>>)
    ELSE IF deriv = 0
    THEN Contract(SplineCall(spline, r_points, 0), r_points, theta, phi, <<<<r_points>>>>)
    ELSE IF 1 <= deriv /\ deriv < MaxDeriv
    THEN Contract(SplineCall(spline, r_points, deriv), r_points, theta, phi,
                  <<<<r_points, deriv>>>>)
    ELSE InvalidArgument(<<deriv>>)

interpolate_given_splines(spline, r_points, theta, phi, deriv) ==
    IF Len(theta) # Len(phi)
    THEN InvalidArgument(<<Len(theta), Len(phi)>>)
    ELSE IF deriv = 0
    \* r_value = spline(r_points)
    THEN Contract(SplineCall(spline, r_points, 0), r_points, theta, phi, <<<<r_points>>>>)
    ELSE IF 1 <= deriv /\ deriv <= MaxDeriv
    \* r_value = spline(r_points, deriv)
    THEN Contract(SplineCall(spline, r_points, deriv), r_points, theta, phi,
                  <<<<r_points, deriv>>>>)
    ELSE InvalidArgument(<<deriv>>)

(***************************************************************************)
(* grid.utils.convert_cart_to_sph(points, center), which                   *)
(* spline_with_atomic_grid calls at line 239.  A coordinate is an integer  *)
(* in units of 1e-15.  The radius of a point is kept as the root of the    *)
(* sum of the squares sq of its centre-relative coordinates, and an angle  *)
(* as the function and the arguments that give it: theta = arctan2(y, x)   *)
(* and phi = arccos(z / r).  arccos(0 / 0) is NaN.                         *)
(***************************************************************************)
Root(sq) == [root_of |-> sq]

Angle(fn, num, den) == [nan |-> (fn = "arccos" /\ den = 0), fn |-> fn, num |-> num, den |-> den]

ZeroAngle == Angle("zero", 0, 1)

SphericalOf(x, y, z) ==
    LET sq == x * x + y * y + z * z IN
    [r |-> Root(sq), theta |-> Angle("arctan2", y, x), phi |-> Angle("arccos", z, sq)]

\* Mutant: the angles of a point at the centre are left as computed.
convert_cart_to_sph_NoOriginCase(points, center) ==
    LET c == IF center.given THEN center.val ELSE <<0, 0, 0>> IN
    Returned([i \in 1..Len(points) |->
                SphericalOf(points[i][1] - c[1], points[i][2] - c[2], points[i][3] - c[3])])

convert_cart_to_sph(points, center) ==
    LET c == IF center.given THEN center.val ELSE <<0, 0, 0>> IN
    Returned([i \in 1..Len(points) |->
                LET s == SphericalOf(points[i][1] - c[1], points[i][2] - c[2],
                                     points[i][3] - c[3])
                IN IF s.r = Root(0)
                   THEN [r |-> Root(0), theta |-> ZeroAngle, phi |-> ZeroAngle]
                   ELSE s])

(***************************************************************************)
(* The callers of interpolate.py.  A call is recorded with its function,   *)
(* its arguments and what it returned or raised.                           *)
(***************************************************************************)
AngleValues == {Num(0), Num(1), NaN}

AngleLists(n) == [1..n -> AngleValues]

LMaxValues == (0 - 2)..MaxL

HarmInputs ==
    UNION { [l_max : LMaxValues, theta : AngleLists(n), phi : AngleLists(n)] :
              n \in 0..MaxAngles }

CallOf(fn, in, out) == [fn |-> fn, in |-> in, out |-> out]

Called(fn) == \E c \in i_calls : c.fn = fn

InitHarm ==
    /\ i_mode = "harmonics"
    /\ i_in \in HarmInputs

\* The caller calls generate_sph_harms(l_max, theta, phi).
CallGenerateSphHarms ==
    /\ i_mode = "harmonics"
    /\ ~Called("generate_sph_harms")
    /\ i_calls' = i_calls \cup
          {CallOf("generate_sph_harms", i_in,
                  Returned(generate_sph_harms(i_in.l_max, i_in.theta, i_in.phi)))}
    /\ UNCHANGED <<i_mode, i_in, odeVars, trVars, reVars>>

\* The caller calls generate_real_sph_harms(l_max, theta, phi).
CallGenerateRealSphHarms ==
    /\ i_mode = "harmonics"
    /\ ~Called("generate_real_sph_harms")
    /\ i_calls' = i_calls \cup
          {CallOf("generate_real_sph_harms", i_in,
                  generate_real_sph_harms(i_in.l_max, i_in.theta, i_in.phi))}
    /\ UNCHANGED <<i_mode, i_in, odeVars, trVars, reVars>>

\* The harmonic arrays given to the projection: of the shape of l_max, the
\* entry of point n a multiple of seed[n], different for every (m, l).
HarmonicArray(l_max, seed) ==
    LET M == 2 * l_max + 1
        L == l_max + 1
    IN [shape |-> <<M, L, Len(seed)>>,
        data |-> [m \in 1..M |-> [l \in 1..L |-> [n \in 1..Len(seed) |->
                    RMul(seed[n], IF m = 1 THEN Num(m + M * (l - 1))
                                  ELSE Real(0, m + M * (l - 1)))]]]]

Seeds == [1..NumPoints -> {Num(1), NaN}]

ValueArrays ==
    { [n \in 1..NumPoints |-> Num(1)],
      [n \in 1..NumPoints |-> Num(n)],
      [n \in 1..NumPoints |-> IF n = 1 THEN NaN ELSE Num(n)] }

WeightArrays ==
    { [n \in 1..NumPoints |-> Num(1)], [n \in 1..NumPoints |-> Num(n + 1)] }

\* The offsets of the shells: from 0 to the number of points, not decreasing.
IndexLists ==
    { s \in UNION { [1..(K + 1) -> 0..NumPoints] : K \in 1..MaxShells } :
        /\ s[1] = 0
        /\ s[Len(s)] = NumPoints
        /\ \A k \in 1..(Len(s) - 1) : s[k] <= s[k + 1] }

ProjectInputs ==
    { [sph_harm |-> HarmonicArray(l_max, seed), value_arrays |-> v, weights |-> w,
       indices |-> ix] :
        l_max \in 0..1, seed \in Seeds, v \in ValueArrays, w \in WeightArrays,
        ix \in IndexLists }

\* The radial grids of K points: increasing positive points, positive weights.
RadialGrids(K) ==
    { [points |-> [k \in 1..K |-> k], weights |-> [k \in 1..K |-> 1]],
      [points |-> [k \in 1..K |-> k + 1], weights |-> [k \in 1..K |-> k + 1]] }

\* The points n (from 1) of shell j of the offsets indices.
ShellPoints(indices, j) == { n \in 1..NumPoints : indices[j] < n /\ n <= indices[j + 1] }

\* The arguments in with the data of the points of shell j replaced: the
\* harmonics, the values and the weights of these points become h, v and w.
ShellChanged(in, j, h, v, w) ==
    LET S == ShellPoints(in.indices, j) IN
    [sph_harm |-> [shape |-> in.sph_harm.shape,
                   data |-> [m \in 1..in.sph_harm.shape[1] |->
                               [l \in 1..in.sph_harm.shape[2] |->
                                  [n \in 1..in.sph_harm.shape[3] |->
                                     IF n \in S THEN h ELSE in.sph_harm.data[m][l][n]]]]],
     value_arrays |-> [n \in 1..NumPoints |-> IF n \in S THEN v ELSE in.value_arrays[n]],
     weights |-> [n \in 1..NumPoints |-> IF n \in S THEN w ELSE in.weights[n]],
     indices |-> in.indices]

InitProject ==
    /\ i_mode = "projection"
    /\ i_in \in ProjectInputs

\* The caller calls project_function_onto_spherical_expansion(sph_harm,
\* value_arrays, weights, indices).
CallProject ==
    /\ i_mode = "projection"
    /\ ~Called("project_function_onto_spherical_expansion")
    /\ i_calls' = i_calls \cup
          {CallOf("project_function_onto_spherical_expansion", i_in,
                  project_function_onto_spherical_expansion(
                     i_in.sph_harm, i_in.value_arrays, i_in.weights, i_in.indices))}
    /\ UNCHANGED <<i_mode, i_in, odeVars, trVars, reVars>>

\* The caller calls the projection again, with other data at the points of
\* one shell.
CallProjectShellChanged ==
    /\ i_mode = "projection"
    /\ Cardinality(i_calls) = 1
    /\ Called("project_function_onto_spherical_expansion")
    /\ \E j \in 1..(Len(i_in.indices) - 1), h \in {Num(3), NaN}, v \in {Num(5), NaN} :
          LET in2 == ShellChanged(i_in, j, h, v, Num(7)) IN
          /\ in2 # i_in
          /\ i_calls' = i_calls \cup
                {CallOf("project_function_onto_spherical_expansion", in2,
                        project_function_onto_spherical_expansion(
                           in2.sph_harm, in2.value_arrays, in2.weights, in2.indices))}
    /\ UNCHANGED <<i_mode, i_in, odeVars, trVars, reVars>>

\* The caller calls spline_with_sph_harms(sph_harm, value_arrays, weights,
\* indices, radial) with a radial grid of one point per shell.
CallSplineWithSphHarms ==
    /\ i_mode = "projection"
    /\ Cardinality(i_calls) <= 1
    /\ ~Called("spline_with_sph_harms")
    /\ \E radial \in RadialGrids(Len(i_in.indices) - 1) :
          i_calls' = i_calls \cup
             {CallOf("spline_with_sph_harms",
                     [sph_harm |-> i_in.sph_harm, value_arrays |-> i_in.value_arrays,
                      weights |-> i_in.weights, indices |-> i_in.indices,
                      radial |-> radial],
                     spline_with_sph_harms(i_in.sph_harm, i_in.value_arrays,
                                           i_in.weights, i_in.indices, radial))}
    /\ UNCHANGED <<i_mode, i_in, odeVars, trVars, reVars>>

\* The splines given to the evaluation: a spline object of two knots whose
\* data row y_k is of the shape of l_max.
Splines ==
    { CubicSpline(<<1, 2>>,
                  [shape |-> <<2, 2 * l_max + 1, l_max + 1>>,
                   data |-> [k \in 1..2 |-> [m \in 1..(2 * l_max + 1) |->
                               [l \in 1..(l_max + 1) |-> Num(k + m + 3 * l)]]]]) :
        l_max \in 0..1 }

RPoints ==
    { [scalar |-> TRUE, v |-> <<1>>], [scalar |-> TRUE, v |-> <<2>>],
      [scalar |-> FALSE, v |-> <<2>>], [scalar |-> FALSE, v |-> <<1, 2>>] }

DerivValues == (0 - 1)..(MaxDeriv + 1)

EvalAngleLists == UNION { [1..n -> {Num(1), NaN}] : n \in 0..MaxAngles }

EvalInputs ==
    [spline : Splines, r_points : RPoints, theta : EvalAngleLists,
     phi : EvalAngleLists, deriv : DerivValues]

InitEval ==
    /\ i_mode = "evaluation"
    /\ i_in \in EvalInputs

\* The caller calls interpolate_given_splines(spline, r_points, theta, phi, deriv).
CallInterpolateGivenSplines ==
    /\ i_mode = "evaluation"
    /\ ~Called("interpolate_given_splines")
    /\ i_calls' = i_calls \cup
          {CallOf("interpolate_given_splines", i_in,
                  interpolate_given_splines(i_in.spline, i_in.r_points, i_in.theta,
                                            i_in.phi, i_in.deriv))}
    /\ UNCHANGED <<i_mode, i_in, odeVars, trVars, reVars>>

\* The points given to the conversion: one point, at the centre, a few
\* units of 1e-15 from it, or 1e-12 and more from it.
CoordValues == {0 - 1, 0, 1, TinyRadius}

CartInputs ==
    [points : { <<p>> : p \in CoordValues \X CoordValues \X CoordValues },
     center : { [given |-> FALSE, val |-> <<>>], [given |-> TRUE, val |-> <<0, 0, 0>>],
                [given |-> TRUE, val |-> <<1, 1, 1>>] }]

InitConvert ==
    /\ i_mode = "conversion"
    /\ i_in \in CartInputs

\* The caller calls convert_cart_to_sph(points, center).
CallConvertCartToSph ==
    /\ i_mode = "conversion"
    /\ ~Called("convert_cart_to_sph")
    /\ i_calls' = i_calls \cup
          {CallOf("convert_cart_to_sph", i_in,
                  convert_cart_to_sph(i_in.points, i_in.center))}
    /\ UNCHANGED <<i_mode, i_in, odeVars, trVars, reVars>>

InitInterp ==
    /\ InitOdeIdle
    /\ InitTrIdle
    /\ InitReIdle
    /\ i_calls = {}
    /\ (InitHarm \/ InitProject \/ InitEval \/ InitConvert)

NextInterp ==
    \/ CallGenerateSphHarms
    \/ CallGenerateRealSphHarms
    \/ CallProject
    \/ CallProjectShellChanged
    \/ CallSplineWithSphHarms
    \/ CallInterpolateGivenSplines
    \/ CallConvertCartToSph

SpecInterp == InitInterp /\ [][NextInterp]_vars

(***************************************************************************)
(* grid.cubic: the flat index of a point of a tensor-product grid of two   *)
(* or three axes and its coordinates (one integer per axis), as the tests  *)
(* of test_cubic.py lines 289-329 use them.  shape is the tuple of the     *)
(* numbers of points of the axes.                                          *)
(***************************************************************************)
\* Mutant: the first axis varies fastest.
index_to_coordinates_FirstAxisFastest(shape, index) ==
    IF Len(shape) = 3
    THEN LET k == index \div (shape[1] * shape[2])
             j == (index - shape[1] * shape[2] * k) \div shape[1]
             i == index - shape[1] * shape[2] * k - shape[1] * j
         IN Returned(<<i, j, k>>)
    ELSE LET j == index \div shape[1]
             i == index - shape[1] * j
         IN Returned(<<i, j>>)

index_to_coordinates(shape, index) ==
    IF Len(shape) = 3
    THEN LET i == index \div (shape[2] * shape[3])
             j == (index - shape[2] * shape[3] * i) \div shape[3]
             k == index - shape[2] * shape[3] * i - shape[3] * j
         IN Returned(<<i, j, k>>)
    ELSE LET i == index \div shape[2]
             j == index - shape[2] * i
         IN Returned(<<i, j>>)

coordinates_to_index(shape, coord) ==
    IF Len(shape) = 3
    THEN Returned(shape[3] * shape[2] * coord[1] + shape[3] * coord[2] + coord[3])
    ELSE Returned(shape[2] * coord[1] + coord[2])

(***************************************************************************)
(* The callers of the index conversions of a tensor-product grid.          *)
(***************************************************************************)
GridShapes == [1..2 -> 1..MaxAxis] \cup [1..3 -> 1..MaxAxis]

GridSize(shape) == IF Len(shape) = 3 THEN shape[1] * shape[2] * shape[3]
                   ELSE shape[1] * shape[2]

InitCubic ==
    /\ InitOdeIdle
    /\ InitTrIdle
    /\ InitReIdle
    /\ i_mode = "cubic"
    /\ \E shape \in GridShapes : \E index \in 0..(GridSize(shape) - 1) :
          i_in = [shape |-> shape, index |-> index]
    /\ i_calls = {}

\* The caller calls cubic.index_to_coordinates(index).
CallIndexToCoordinates ==
    /\ i_mode = "cubic"
    /\ ~Called("index_to_coordinates")
    /\ i_calls' = i_calls \cup
          {CallOf("index_to_coordinates", i_in,
                  index_to_coordinates(i_in.shape, i_in.index))}
    /\ UNCHANGED <<i_mode, i_in, odeVars, trVars, reVars>>

\* The caller calls cubic.coordinates_to_index(coord) with the coordinates
\* that index_to_coordinates returned.
CallCoordinatesToIndex ==
    /\ i_mode = "cubic"
    /\ ~Called("coordinates_to_index")
    /\ \E d \in i_calls :
          /\ d.fn = "index_to_coordinates"
          /\ i_calls' = i_calls \cup
                {CallOf("coordinates_to_index",
                        [shape |-> d.in.shape, coord |-> d.out.value],
                        coordinates_to_index(d.in.shape, d.out.value))}
    /\ UNCHANGED <<i_mode, i_in, odeVars, trVars, reVars>>

NextCubic == CallIndexToCoordinates \/ CallCoordinatesToIndex

SpecCubic == InitCubic /\ [][NextCubic]_vars

(***************************************************************************)
(* The callers of ODE._construct_coeff_array.                              *)
(***************************************************************************)
\* A coefficient of a list: a number, or a callable (the table of its
\* values at the mesh points).
Coefficients ==
    { Const(1), Const(2),
      [kind |-> "func", fn |-> [p \in 0..(MeshSize - 1) |-> p + 3]],
      [kind |-> "func", fn |-> [p \in 0..(MeshSize - 1) |-> 2 * p]] }

MixedCoeffLists == UNION { [1..n -> Coefficients] : n \in 0..(MaxOrder + 1) }

InitCoeffArray ==
    /\ InitOdeIdle
    /\ InitTrIdle
    /\ InitReIdle
    /\ i_mode = "coefficients"
    /\ \E coeff \in MixedCoeffLists : i_in = [x |-> Mesh, coeff |-> coeff]
    /\ i_calls = {}

\* The caller calls ODE._construct_coeff_array(x, coeff).
CallConstructCoeffArray ==
    /\ i_mode = "coefficients"
    /\ ~Called("_construct_coeff_array")
    /\ i_calls' = i_calls \cup
          {CallOf("_construct_coeff_array", i_in,
                  Returned(_construct_coeff_array(i_in.x, i_in.coeff)))}
    /\ UNCHANGED <<i_mode, i_in, odeVars, trVars, reVars>>

NextCoeffArray == CallConstructCoeffArray

SpecCoeffArray == InitCoeffArray /\ [][NextCoeffArray]_vars

(***************************************************************************)
(* Properties of solve_ode.                                                *)
(***************************************************************************)
Validated == pc \notin {"idle", "setup"} /\ pc # "rejected"

Ended == pc \notin {"idle", "setup", "solving"}

\* C1: every call that passes the validation goes from Setup to Solving and
\* ends either Converged (the interpolant is returned) or Failed (a
\* convergence error is raised); there is no third outcome.
C1_ConvergedOrFailed ==
    /\ (Validated => bvpCalls = 1)
    /\ (Validated /\ Ended) => pc \in {"converged", "failed"}

\* C2: solve_ode returns the interpolant only when solve_bvp reported status
\* 0; on every non-zero status it raises the convergence error carrying that
\* status and returns nothing.
C2_ReturnOnlyOnStatusZero ==
    /\ outcome.kind = "return" =>
          res.returned /\ res.status = 0 /\ outcome.type = "res.sol"
    /\ (res.returned /\ res.status # 0) =>
          /\ pc = "failed"
          /\ outcome.kind = "raise"
          /\ outcome.type = "ValueError"
          /\ outcome.fields = [status |-> res.status]

C2_Witness ==
    /\ pc = "failed" /\ res.returned /\ res.status = 2
    /\ outcome.fields = [status |-> 2]

\* C3: when the number of boundary conditions differs from the order K, the
\* call raises the error reporting the expected order and the actual count,
\* and solve_bvp is never invoked.
C3_BdCountMismatchRejected ==
    (pc \notin {"idle", "setup"} /\ Len(args.bd_cond) # Len(args.coeffs) - 1) =>
        /\ pc = "rejected"
        /\ outcome.kind = "raise"
        /\ outcome.type = "NotImplementedError"
        /\ outcome.fields = [expect |-> Len(args.coeffs) - 1,
                             got |-> Len(args.bd_cond)]
        /\ bvpCalls = 0
        /\ ~res.returned

C3_Witness ==
    /\ pc = "rejected"
    /\ Len(args.coeffs) = 3 /\ Len(args.bd_cond) = 1
    /\ outcome.fields = [expect |-> 2, got |-> 1]

\* C4: a coefficient list longer than 4 (order K > 3) is rejected with an
\* error and solve_bvp is never invoked, whatever the number of boundary
\* conditions.
C4_OrderAboveThreeRejected ==
    (pc \notin {"idle", "setup"} /\ Len(args.coeffs) > 4) =>
        /\ pc = "rejected"
        /\ outcome.kind = "raise"
        /\ bvpCalls = 0
        /\ bvp = NoBvp

C4_Witness ==
    /\ pc = "rejected"
    /\ Len(args.coeffs) = 5 /\ Len(args.bd_cond) = 4
    /\ outcome.msg = "Only support 3rd order ODE or less."

\* C7: when the caller supplies initial_guess_y, that guess is the y handed
\* to solve_bvp (so equal inputs delegate equal arguments); random values
\* are used only when no guess is supplied.
C7_SuppliedGuessDelegated ==
    (bvpCalls > 0 /\ args.initial_guess_y.given) =>
        bvp.y = args.initial_guess_y.val

\* C8: solve_bvp is called with the caller's tol and the caller's max_nodes.
C8_TolAndMaxNodesDelegated ==
    bvpCalls > 0 =>
        /\ "tol" \in DOMAIN bvp.kw
        /\ bvp.kw.tol = args.tol
        /\ "max_nodes" \in DOMAIN bvp.kw
        /\ bvp.kw.max_nodes = args.max_nodes

\* C9: within one call solve_bvp is invoked at most once; after a non-zero
\* status the call has failed and no second solve attempt is made.
C9_SolvedAtMostOnce ==
    /\ bvpCalls <= 1
    /\ (res.returned /\ res.status # 0) => (pc = "failed" /\ bvpCalls = 1)

C9_Witness == pc = "failed" /\ res.status = 1 /\ bvpCalls = 1

(***************************************************************************)
(* Properties of the coefficient transformer.                              *)
(***************************************************************************)
TransformCalled == t_pc \in {"from_derivs", "from_rtransform"}

\* The mesh on which the transform's derivatives are sampled by the call.
SampledAt ==
    IF t_pc = "from_rtransform" THEN Sample(t_in.tf.inverse, t_in.r) ELSE t_in.r

A(k, n) == t_in.coeffs[k + 1].val

G1(n) == t_in.tf.deriv[SampledAt[n]]

G2(n) == t_in.tf.deriv2[SampledAt[n]]

G3(n) == t_in.tf.deriv3[SampledAt[n]]

\* b_j at the mesh point n, as the chain rule gives it for the order K.
ChainRuleB(j, n) ==
    LET K == Len(t_in.coeffs) - 1 IN
    CASE j = 0 -> A(0, n)
      [] j = 1 -> A(1, n) * G1(n)
                  + (IF K >= 2 THEN A(2, n) * G2(n) ELSE 0)
                  + (IF K >= 3 THEN A(3, n) * G3(n) ELSE 0)
      [] j = 2 -> A(2, n) * G1(n) * G1(n)
                  + (IF K >= 3 THEN 3 * A(3, n) * G1(n) * G2(n) ELSE 0)
      [] j = 3 -> A(3, n) * G1(n) * G1(n) * G1(n)

\* C5: _transform_ode_from_derivs returns the (K+1, N) array b with
\* b_0 = a_0, b_1 = a_1 g' + a_2 g'' + a_3 g''', b_2 = a_2 g'^2 + 3 a_3 g' g''
\* and b_3 = a_3 g'^3 (the terms of a_k present when K >= k) at every point.
C5_TransformedCoefficients ==
    t_pc = "from_derivs" =>
        /\ t_out.raised = None
        /\ Len(t_out.value) = Len(t_in.coeffs)
        /\ \A j \in 0..(Len(t_in.coeffs) - 1) :
              /\ Len(t_out.value[j + 1]) = Len(t_in.r)
              /\ \A n \in 1..Len(t_in.r) : t_out.value[j + 1][n] = ChainRuleB(j, n)

\* C6: with the identity transform (g' = 1, g'' = g''' = 0 at every mesh
\* point) the transformer returns b_j = a_j for every j in 0..K, K in 1..3.
C6_IdentityKeepsCoefficients ==
    ( /\ TransformCalled
      /\ Len(t_in.coeffs) >= 2
      /\ \A n \in 1..Len(t_in.r) : G1(n) = 1 /\ G2(n) = 0 /\ G3(n) = 0 ) =>
        /\ t_out.raised = None
        /\ Len(t_out.value) = Len(t_in.coeffs)
        /\ \A j \in 0..(Len(t_in.coeffs) - 1) :
              \A n \in 1..Len(t_in.r) : t_out.value[j + 1][n] = A(j, n)

(***************************************************************************)
(* Properties of _rearrange_to_explicit_ode.                               *)
(***************************************************************************)
\* C10: after _rearrange_to_explicit_ode(y, coeff_b, fx) returns, y, coeff_b
\* and fx hold the values they held before the call, so a second call with
\* the same fx object returns the same result.
C10_InputsNotModified ==
    /\ Len(r_results) >= 1 => heap = heap0
    /\ Len(r_results) >= 2 => r_results[2] = r_results[1]

(***************************************************************************)
(* Properties of the harmonic generators.                                  *)
(***************************************************************************)
CallsOf(fn) == {c \in i_calls : c.fn = fn}

\* The position (from 1) of order m on the order axis of 2*l_max + 1 rows:
\* position m, a negative m counted from the end.
OrderPosition(m, l_max) == IF m >= 0 THEN m + 1 ELSE 2 * l_max + 1 + m + 1

\* The real harmonic of order m made from the complex value z of an order:
\* z for m = 0, sqrt(2)*Re(z) for m > 0, sqrt(2)*Im(z) for m < 0, and 0 for NaN.
RealPart(m, z) ==
    IF z.nan THEN Num(0)
    ELSE IF m = 0 THEN Num(z.re)
    ELSE IF m > 0 THEN Real(0, z.re) ELSE Real(0, z.im)

\* C11: for every l_max >= 0 and N angles, generate_sph_harms and
\* generate_real_sph_harms return an array of shape (2*l_max+1, l_max+1, N)
\* whose position m of the order axis (a negative m counted from the end)
\* holds order m: the complex harmonic sph_harm(m, l, theta_n, phi_n), and
\* in the real variant the real harmonic made from it.
C11_ShapeAndOrderAxis ==
    \A c \in i_calls :
       (c.fn \in {"generate_sph_harms", "generate_real_sph_harms"} /\ c.in.l_max >= 0) =>
          LET l_max == c.in.l_max
              N == Len(c.in.theta)
          IN /\ c.out.raised = None
             /\ c.out.value.shape = <<2 * l_max + 1, l_max + 1, N>>
             /\ Len(c.out.value.data) = 2 * l_max + 1
             /\ \A m \in (0 - l_max)..l_max, l \in 0..l_max, n \in 1..N :
                   LET y == sph_harm(m, l, c.in.theta[n], c.in.phi[n])
                       entry == c.out.value.data[OrderPosition(m, l_max)][l + 1][n]
                   IN IF c.fn = "generate_sph_harms"
                      THEN entry = y
                      ELSE entry = RealPart(m, y)

C11_Witness ==
    /\ \E c \in CallsOf("generate_sph_harms") :
          c.in.l_max = MaxL /\ Len(c.in.theta) = MaxAngles /\ c.out.raised = None
    /\ \E c \in CallsOf("generate_real_sph_harms") :
          c.in.l_max = MaxL /\ Len(c.in.theta) = MaxAngles /\ c.out.raised = None

\* C12: for every l_max >= 0, l_max = 0 included, the m = 0 row of the real
\* tensor is the real part of the m = 0 row of the complex tensor of the
\* same arguments, for every degree l and every sample whose complex value
\* is a number.
C12_RowZeroIsComplexRowZero ==
    \A c \in CallsOf("generate_real_sph_harms"), d \in CallsOf("generate_sph_harms") :
       (c.in = d.in /\ c.in.l_max >= 0) =>
          /\ c.out.raised = None
          /\ \A l \in 0..c.in.l_max, n \in 1..Len(c.in.theta) :
                LET z == d.out.value.data[1][l + 1][n] IN
                ~z.nan => c.out.value.data[1][l + 1][n] = Num(z.re)

C12_Witness ==
    \E c \in CallsOf("generate_real_sph_harms"), d \in CallsOf("generate_sph_harms") :
       /\ c.in = d.in
       /\ c.in.l_max = 0
       /\ Len(c.in.theta) >= 1
       /\ ~d.out.value.data[1][1][1].nan
       /\ c.out.value.data[1][1][1] = Num(d.out.value.data[1][1][1].re)

C14_NegativeLMaxRejected ==
    \A c \in CallsOf("generate_real_sph_harms") :
       c.in.l_max < 0 => (c.out.raised # None /\ c.out.value = <<>>)

C14_Witness ==
    \E c \in CallsOf("generate_real_sph_harms") :
       c.in.l_max < 0 /\ Len(c.in.theta) >= 1 /\ c.out.raised = "IndexError"

(***************************************************************************)
(* Properties of the projection, the spline fit and the evaluation.        *)
(***************************************************************************)
NoNaNIn(arr) ==
    \A i \in 1..arr.shape[1], j \in 1..arr.shape[2], n \in 1..arr.shape[3] :
       ~arr.data[i][j][n].nan

HasNaNIn(arr) == ~NoNaNIn(arr)

\* C15: no NaN is surfaced: every entry of an array that
\* generate_real_sph_harms or project_function_onto_spherical_expansion
\* returns is a number, also when the special function or the arguments
\* bring NaN in.
C15_NoNaNReturned ==
    \A c \in i_calls :
       (/\ c.fn \in {"generate_real_sph_harms", "project_function_onto_spherical_expansion"}
        /\ c.out.raised = None) => NoNaNIn(c.out.value)

C15_Witness ==
    \E c \in CallsOf("project_function_onto_spherical_expansion") :
       /\ HasNaNIn(c.in.sph_harm)
       /\ c.out.raised = None
       /\ NoNaNIn(c.out.value)
       /\ c.out.value.shape[1] = MaxShells

NaNFree(in) ==
    /\ NoNaNIn(in.sph_harm)
    /\ \A n \in 1..Len(in.value_arrays) : ~in.value_arrays[n].nan /\ ~in.weights[n].nan

RECURSIVE ShellSum(_, _, _, _, _)
\* The sum of harmonic(m, l, n) * value(n) * weight(n) over the points n
\* (from 0) with from <= n < to.
ShellSum(in, m, l, from, to) ==
    IF from >= to THEN Num(0)
    ELSE RAdd(RMul(RMul(in.sph_harm.data[m][l][from + 1], in.value_arrays[from + 1]),
                   in.weights[from + 1]),
              ShellSum(in, m, l, from + 1, to))

\* C16: for arguments without NaN, project_function_onto_spherical_expansion
\* returns an array of shape (K, M, L) whose entry (k, m, l) is the sum of
\* harmonic(m, l, n) * value(n) * weight(n) over the points n in
\* [indices[k], indices[k+1]).
C16_ShellSums ==
    \A c \in CallsOf("project_function_onto_spherical_expansion") :
       NaNFree(c.in) =>
          LET K == Len(c.in.indices) - 1
              M == c.in.sph_harm.shape[1]
              L == c.in.sph_harm.shape[2]
          IN /\ c.out.raised = None
             /\ c.out.value.shape = <<K, M, L>>
             /\ \A k \in 1..K, m \in 1..M, l \in 1..L :
                   c.out.value.data[k][m][l] =
                      ShellSum(c.in, m, l, c.in.indices[k], c.in.indices[k + 1])

C16_Witness ==
    \E c \in CallsOf("project_function_onto_spherical_expansion") :
       /\ NaNFree(c.in)
       /\ Len(c.in.indices) - 1 = MaxShells
       /\ c.in.indices[2] >= 2
       /\ c.in.sph_harm.shape[1] = 3
       /\ c.out.raised = None
       /\ c.out.value.data[1][2][2] # Num(0)

\* The arguments a and b differ at most in the data of the points of shell j.
SameOutsideShell(a, b, j) ==
    /\ a.indices = b.indices
    /\ a.sph_harm.shape = b.sph_harm.shape
    /\ \A n \in (1..NumPoints) \ ShellPoints(a.indices, j) :
          /\ a.value_arrays[n] = b.value_arrays[n]
          /\ a.weights[n] = b.weights[n]
          /\ \A m \in 1..a.sph_harm.shape[1], l \in 1..a.sph_harm.shape[2] :
                a.sph_harm.data[m][l][n] = b.sph_harm.data[m][l][n]

\* C17: two calls of the projection whose arguments differ only in the data
\* of the points of shell j return the same coefficients for every other
\* shell k # j.
C17_ShellsIndependent ==
    \A c \in CallsOf("project_function_onto_spherical_expansion"),
       d \in CallsOf("project_function_onto_spherical_expansion") :
       \A j \in 1..(Len(c.in.indices) - 1) :
          (SameOutsideShell(c.in, d.in, j) /\ c.out.raised = None /\ d.out.raised = None) =>
             \A k \in (1..(Len(c.in.indices) - 1)) \ {j} :
                c.out.value.data[k] = d.out.value.data[k]

C17_Witness ==
    \E c \in CallsOf("project_function_onto_spherical_expansion"),
       d \in CallsOf("project_function_onto_spherical_expansion") :
       /\ c.in # d.in
       /\ Len(c.in.indices) - 1 = MaxShells
       /\ SameOutsideShell(c.in, d.in, 1)
       /\ ShellPoints(c.in.indices, 1) # {}
       /\ ShellPoints(c.in.indices, 2) # {}
       /\ c.out.value.data[1] # d.out.value.data[1]
       /\ c.out.value.data[2] = d.out.value.data[2]
       /\ c.out.value.data[2][1][1] # Num(0)

\* C18: spline_with_sph_harms builds the spline on x = radial.points with
\* the data entry (k, m, l) equal to the projected coefficient (k, m, l)
\* divided by r_k^2 * w_k, the same divisor for every (m, l) of shell k.
C18_SplineData ==
    \A c \in CallsOf("spline_with_sph_harms"),
       d \in CallsOf("project_function_onto_spherical_expansion") :
       (/\ d.in = [sph_harm |-> c.in.sph_harm, value_arrays |-> c.in.value_arrays,
                   weights |-> c.in.weights, indices |-> c.in.indices]
        /\ d.out.raised = None) =>
          /\ c.out.raised = None
          /\ c.out.value.x = c.in.radial.points
          /\ c.out.value.y.shape = d.out.value.shape
          /\ \A k \in 1..d.out.value.shape[1], m \in 1..d.out.value.shape[2],
                l \in 1..d.out.value.shape[3] :
                c.out.value.y.data[k][m][l] =
                   <<d.out.value.data[k][m][l],
                     c.in.radial.points[k] * c.in.radial.points[k] * c.in.radial.weights[k]>>

C18_Witness ==
    \E c \in CallsOf("spline_with_sph_harms"),
       d \in CallsOf("project_function_onto_spherical_expansion") :
       /\ d.in = [sph_harm |-> c.in.sph_harm, value_arrays |-> c.in.value_arrays,
                  weights |-> c.in.weights, indices |-> c.in.indices]
       /\ c.in.radial.points = <<2, 3>>
       /\ c.in.radial.weights = <<2, 3>>
       /\ c.out.raised = None
       /\ c.out.value.y.data[2][1][1][2] = 27
       /\ c.out.value.y.data[2][1][1][1] # Num(0)

\* C19: interpolate_given_splines ends every call with len(theta) #
\* len(phi) with a ValueError that reports the two lengths, and has not
\* called the spline, for every deriv and every r_points.
C19_LengthMismatchRejected ==
    \A c \in CallsOf("interpolate_given_splines") :
       Len(c.in.theta) # Len(c.in.phi) =>
          /\ c.out.raised = "ValueError"
          /\ c.out.fields = <<Len(c.in.theta), Len(c.in.phi)>>
          /\ c.out.evals = <<>>
          /\ c.out.value = <<>>

C19_Witness ==
    \E c \in CallsOf("interpolate_given_splines") :
       /\ Len(c.in.theta) = 1
       /\ Len(c.in.phi) = 2
       /\ c.in.deriv = 0
       /\ c.out.raised = "ValueError"
       /\ c.out.evals = <<>>

\* C20: with theta and phi of one length, interpolate_given_splines returns
\* for deriv = 0, 1, 2, 3, having called the spline once: spline(r_points)
\* for deriv = 0 and spline(r_points, deriv) for deriv in 1..3; every
\* deriv outside [0, 3] ends with a ValueError that reports deriv, the
\* spline not called.
C20_DerivRange ==
    \A c \in CallsOf("interpolate_given_splines") :
       Len(c.in.theta) = Len(c.in.phi) =>
          /\ c.in.deriv = 0 =>
                (c.out.raised = None /\ c.out.evals = <<<<c.in.r_points>>>>)
          /\ c.in.deriv \in 1..3 =>
                (c.out.raised = None /\ c.out.evals = <<<<c.in.r_points, c.in.deriv>>>>)
          /\ c.in.deriv \notin 0..3 =>
                (/\ c.out.raised = "ValueError"
                 /\ c.out.fields = <<c.in.deriv>>
                 /\ c.out.evals = <<>>
                 /\ c.out.value = <<>>)

C20_Witness ==
    \E c \in CallsOf("interpolate_given_splines") :
       /\ Len(c.in.theta) = 1
       /\ Len(c.in.phi) = 1
       /\ c.in.deriv = 3
       /\ c.out.raised = None
       /\ c.out.evals = <<<<c.in.r_points, 3>>>>
       /\ Len(c.out.value) >= 1

RECURSIVE ExpansionSum(_, _, _, _, _)
\* The sum of coeff(m, l) * harmonic(m, l, j) over the pairs (m, l) from
\* (m, l) on, in the order of the rows: l runs to L within a row, m to M.
ExpansionSum(coeff, harmonic, j, m, l) ==
    IF m > Len(coeff) THEN Num(0)
    ELSE IF l > Len(coeff[m]) THEN ExpansionSum(coeff, harmonic, j, m + 1, 1)
    ELSE RAdd(RMul(coeff[m][l], harmonic[m][l][j]),
              ExpansionSum(coeff, harmonic, j, m, l + 1))

\* C21: for a spline that returns (M, L) coefficient matrices,
\* interpolate_given_splines makes the real harmonics of the angles with
\* l_max = L - 1 and returns, for a scalar radius, an array of Na entries
\* with entry j the sum over (m, l) of coeff(m, l) * harmonic(m, l, j), and
\* for Nr radii an (Nr, Na) array with entry (i, j) the sum over (m, l) of
\* coeff_i(m, l) * harmonic(m, l, j).
C21_ExpansionContracted ==
    \A c \in CallsOf("interpolate_given_splines") :
       (Len(c.in.theta) = Len(c.in.phi) /\ c.in.deriv \in 0..3) =>
          LET L == c.in.spline.y.shape[3]
              Na == Len(c.in.theta)
              coeff == SplineCall(c.in.spline, c.in.r_points, c.in.deriv)
              harmonic == generate_real_sph_harms(L - 1, c.in.theta, c.in.phi).value.data
          IN /\ c.out.raised = None
             /\ IF c.in.r_points.scalar
                THEN /\ Len(c.out.value) = Na
                     /\ \A j \in 1..Na :
                           c.out.value[j] = ExpansionSum(coeff.data, harmonic, j, 1, 1)
                ELSE /\ Len(c.out.value) = Len(c.in.r_points.v)
                     /\ \A i \in 1..Len(c.in.r_points.v) :
                           /\ Len(c.out.value[i]) = Na
                           /\ \A j \in 1..Na :
                                 c.out.value[i][j] =
                                    ExpansionSum(coeff.data[i], harmonic, j, 1, 1)

C21_Witness ==
    \E c \in CallsOf("interpolate_given_splines") :
       /\ ~c.in.r_points.scalar
       /\ Len(c.in.r_points.v) = 2
       /\ Len(c.in.theta) = MaxAngles
       /\ Len(c.in.phi) = MaxAngles
       /\ ~c.in.theta[1].nan /\ ~c.in.phi[1].nan
       /\ c.in.spline.y.shape[3] = 2
       /\ c.in.deriv = 1
       /\ c.out.raised = None
       /\ c.out.value[1][1] # c.out.value[2][1]
       /\ c.out.value[2][1] # Num(0)

(***************************************************************************)
(* Properties of the conversion to spherical coordinates.                  *)
(***************************************************************************)
\* The square of the distance of point i of the call c from the centre.
DistanceSq(c, i) ==
    LET o == IF c.in.center.given THEN c.in.center.val ELSE <<0, 0, 0>>
        p == c.in.points[i]
    IN (p[1] - o[1]) * (p[1] - o[1]) + (p[2] - o[2]) * (p[2] - o[2])
          + (p[3] - o[3]) * (p[3] - o[3])

\* C22: convert_cart_to_sph returns (r, theta, phi) = (0, 0, 0) without
\* raising for a point equal to the centre, and for a point closer than
\* 1e-12 to the centre a radius below 1e-12 and angles that are not NaN.
C22_OriginHandled ==
    \A c \in CallsOf("convert_cart_to_sph") :
       /\ c.out.raised = None
       /\ \A i \in 1..Len(c.in.points) :
             /\ DistanceSq(c, i) = 0 =>
                   c.out.value[i] = [r |-> Root(0), theta |-> ZeroAngle, phi |-> ZeroAngle]
             /\ DistanceSq(c, i) < TinyRadius * TinyRadius =>
                   /\ c.out.value[i].r.root_of < TinyRadius * TinyRadius
                   /\ ~c.out.value[i].theta.nan
                   /\ ~c.out.value[i].phi.nan

C22_Witness ==
    /\ \E c \in CallsOf("convert_cart_to_sph") :
          /\ c.in.points = <<(<<1, 1, 1>>)>>
          /\ c.in.center = [given |-> TRUE, val |-> <<1, 1, 1>>]
          /\ c.out.value[1].r = Root(0)
          /\ c.out.value[1].phi = ZeroAngle

(***************************************************************************)
(* Properties of the index conversions of a tensor-product grid.           *)
(***************************************************************************)
\* C23: on a tensor-product grid of two or three axes,
\* coordinates_to_index(index_to_coordinates(i)) = i for every valid flat
\* index i, and the last axis varies fastest: the coordinates are within
\* the axes, the last one is i modulo the length of the last axis, and in
\* a 3x3x3 grid index 3 is (0, 1, 0) and (1, 0, 1) is index 10.
C23_IndexRoundTrip ==
    /\ \A d \in CallsOf("index_to_coordinates") :
          LET n == Len(d.in.shape) IN
          /\ d.out.raised = None
          /\ Len(d.out.value) = n
          /\ \A a \in 1..n : d.out.value[a] \in 0..(d.in.shape[a] - 1)
          /\ d.out.value[n] = d.in.index % d.in.shape[n]
          /\ (d.in.shape = <<3, 3, 3>> /\ d.in.index = 3) => d.out.value = <<0, 1, 0>>
    /\ \A c \in CallsOf("coordinates_to_index"), d \in CallsOf("index_to_coordinates") :
          (c.in.shape = d.in.shape /\ c.in.coord = d.out.value) =>
             /\ c.out = Returned(d.in.index)
             /\ (c.in.shape = <<3, 3, 3>> /\ c.in.coord = <<1, 0, 1>>) => c.out.value = 10

C23_Witness ==
    \E c \in CallsOf("coordinates_to_index"), d \in CallsOf("index_to_coordinates") :
       /\ d.in.shape = <<3, 3, 3>>
       /\ d.in.index = 10
       /\ d.out.value = <<1, 0, 1>>
       /\ c.in.coord = d.out.value
       /\ c.out.value = 10

(***************************************************************************)
(* Properties of the first-order system and of the boundary residual.      *)
(***************************************************************************)
\* solve_bvp holds the system of a call that passed the validation.
SystemHanded == pc \in {"solving", "crashed", "converged", "failed"}

\* The right-hand side f of the calls, sampled at the mesh: f = 1.
FxOnMesh == [n \in 1..MeshSize |-> 1]

\* C24: the first-order system that solve_ode hands to solve_bvp maps a
\* state of K rows to K rows: rows 0..K-2 are the state rows 1..K-1 and the
\* last row is (f - sum over j < K of b_j * y^(j)) / b_K at every mesh
\* point, as ODE._rearrange_to_explicit_ode(y, coeff_b, fx) computes it.
C24_FirstOrderSystem ==
    (SystemHanded /\ order_of(args.coeffs) >= 1) =>
       LET K == order_of(args.coeffs)
           system == func(bvp.x, bvp.y, args.coeffs, args.transform)
       IN /\ system.raised = None
          /\ Len(system.value) = K
          /\ \A i \in 1..(K - 1) : system.value[i] = bvp.y[i + 1]
          /\ args.transform = None =>
                system.value[K] =
                   _rearrange_to_explicit_ode(
                      bvp.y, _construct_coeff_array(bvp.x, args.coeffs), FxOnMesh).ret

RECURSIVE LowerTerms(_, _, _, _)
\* The sum of a_j(x_n) * y^(j)(x_n) over the orders j (from 0) with j < K,
\* from order j on, for constant coefficients a_j.
LowerTerms(coeffs, y, n, j) ==
    IF j >= Len(coeffs) - 1 THEN 0
    ELSE coeffs[j + 1].val * y[j + 1][n] + LowerTerms(coeffs, y, n, j + 1)

\* C25: with a transform the system of solve_ode is computed from the
\* coefficients b_j of the coefficient transformer and f at inverse(x);
\* without a transform from the coefficients a_k sampled at x and f(x): in
\* both cases an evaluation of the system returns its rows, and without a
\* transform its last row at the mesh point x_n is
\* (f(x_n) - sum over j < K of a_j(x_n) * y^(j)(x_n)) / a_K(x_n).
C25_SystemCoefficients ==
    (SystemHanded /\ order_of(args.coeffs) >= 1) =>
       LET K == order_of(args.coeffs)
           system == func(bvp.x, bvp.y, args.coeffs, args.transform)
       IN /\ args.transform # None => system.raised = None
          /\ args.transform = None =>
                /\ system.raised = None
                /\ \A n \in 1..Len(bvp.x) :
                      system.value[K][n] =
                         <<FxOnMesh[n] - LowerTerms(args.coeffs, bvp.y, n, 0),
                           args.coeffs[K + 1].val>>

\* C26: the boundary-residual function built by solve_ode returns exactly
\* K residuals, in the order of bd_cond; the residual of the condition
\* (endpoint, deriv, value) is the deriv-th component of the state at the
\* lower endpoint (endpoint 0) or at the upper endpoint (endpoint 1), minus
\* value.
C26_BoundaryResiduals ==
    \A e \in 1..Len(bcRes) :
       LET K == order_of(args.coeffs)
           last == Len(bvp.x)
       IN /\ Len(bcRes[e]) = K
          /\ Len(bcRes[e]) = Len(args.bd_cond)
          /\ \A c \in 1..K :
                LET endpoint == args.bd_cond[c][1]
                    deriv == args.bd_cond[c][2]
                    value == args.bd_cond[c][3]
                IN bcRes[e][c] =
                      (IF endpoint = 0 THEN bvp.y[deriv + 1][1]
                       ELSE bvp.y[deriv + 1][last]) - value

C26_Witness ==
    /\ Len(bcRes) = 1
    /\ args.bd_cond = << <<1, 0, 1>>, <<0, 1, 2>> >>
    /\ bvp.y[1][Len(bvp.x)] = 0
    /\ bvp.y[2][1] = 1
    /\ bcRes[1] = <<0 - 1, 0 - 1>>

(***************************************************************************)
(* Properties of _construct_coeff_array.                                   *)
(***************************************************************************)
\* C27: ODE._construct_coeff_array(x, coeff) returns an array of shape
\* (len(coeff), N) whose row i is the constant coeff[i] at all N mesh
\* points when coeff[i] is a number and coeff[i](x) sampled at the mesh
\* when it is a function; numbers and functions may be mixed in one list.
C27_CoefficientRows ==
    \A c \in CallsOf("_construct_coeff_array") :
       /\ c.out.raised = None
       /\ Len(c.out.value) = Len(c.in.coeff)
       /\ \A i \in 1..Len(c.in.coeff) :
             /\ Len(c.out.value[i]) = Len(c.in.x)
             /\ \A n \in 1..Len(c.in.x) :
                   /\ c.in.coeff[i].kind = "const" =>
                         c.out.value[i][n] = c.in.coeff[i].val
                   /\ c.in.coeff[i].kind = "func" =>
                         c.out.value[i][n] = c.in.coeff[i].fn[c.in.x[n]]

C27_Witness ==
    \E c \in CallsOf("_construct_coeff_array") :
       /\ Len(c.in.coeff) = 3
       /\ c.in.coeff[1] = Const(2)
       /\ c.in.coeff[2].kind = "func"
       /\ c.in.coeff[3] = Const(1)
       /\ c.out.value[1][1] = 2
       /\ c.out.value[2][1] = 3
       /\ c.out.value[2][2] = 4
       /\ c.out.value[3][2] = 1

\* The term harmonic(m, l, n) * value(n) * weight(n) of point n (from 1).
TermOf(in, m, l, n) ==
    RMul(RMul(in.sph_harm.data[m][l][n], in.value_arrays[n]), in.weights[n])

\* C28: in project_function_onto_spherical_expansion NaN is removed only
\* after the summation over a shell: if a single term of shell k is NaN,
\* the coefficient (k, m, l) is 0, not the sum of the other terms.
C28_NaNTermZeroesCoefficient ==
    \A c \in CallsOf("project_function_onto_spherical_expansion") :
       c.out.raised = None =>
          \A k \in 1..(Len(c.in.indices) - 1), m \in 1..c.in.sph_harm.shape[1],
             l \in 1..c.in.sph_harm.shape[2] :
             (\E n \in ShellPoints(c.in.indices, k) : TermOf(c.in, m, l, n).nan) =>
                c.out.value.data[k][m][l] = Num(0)

C28_Witness ==
    \E c \in CallsOf("project_function_onto_spherical_expansion") :
       \E k \in 1..(Len(c.in.indices) - 1) :
          \E n1 \in ShellPoints(c.in.indices, k), n2 \in ShellPoints(c.in.indices, k) :
             /\ TermOf(c.in, 1, 1, n1).nan
             /\ ~TermOf(c.in, 1, 1, n2).nan
             /\ TermOf(c.in, 1, 1, n2) # Num(0)
             /\ \A n \in ShellPoints(c.in.indices, k) \ {n1} : ~TermOf(c.in, 1, 1, n).nan
             /\ c.out.raised = None
             /\ c.out.value.data[k][1][1] = Num(0)

\* C29: project_function_onto_spherical_expansion does not check that the
\* shells are non-empty: an empty shell (indices[k] = indices[k+1]) raises
\* no error, every coefficient of it is 0, and the other shells keep the
\* sums over their own points.
C29_EmptyShell ==
    \A c \in CallsOf("project_function_onto_spherical_expansion") :
       (\E e \in 1..(Len(c.in.indices) - 1) : c.in.indices[e] = c.in.indices[e + 1]) =>
          /\ c.out.raised = None
          /\ \A k \in 1..(Len(c.in.indices) - 1), m \in 1..c.in.sph_harm.shape[1],
                l \in 1..c.in.sph_harm.shape[2] :
                LET sum == ShellSum(c.in, m, l, c.in.indices[k], c.in.indices[k + 1])
                IN c.out.value.data[k][m][l] =
                      IF c.in.indices[k] = c.in.indices[k + 1] \/ sum.nan
                      THEN Num(0) ELSE sum

C29_Witness ==
    \E c \in CallsOf("project_function_onto_spherical_expansion") :
       /\ c.in.indices = <<0, 0, NumPoints>>
       /\ c.in.sph_harm.shape[1] = 3
       /\ c.out.raised = None
       /\ \A m \in 1..3, l \in 1..2 : c.out.value.data[1][m][l] = Num(0)
       /\ c.out.value.data[2][1][1] # Num(0)
       /\ c.out.value.data[2][2][2] # Num(0)

\* C30: the validation of solve_ode has no lower bound on the order: a
\* coefficient list of length 1 (K = 0) with an empty list of boundary
\* conditions raises no validation error, and solve_bvp is called with a
\* state of 0 components.
C30_OrderZeroAccepted ==
    (pc \notin {"idle", "setup"} /\ Len(args.coeffs) = 1 /\ Len(args.bd_cond) = 0) =>
        /\ pc # "rejected"
        /\ outcome.type # "NotImplementedError"
        /\ bvpCalls = 1
        /\ bvp.fun = "func"
        /\ Len(bvp.y) = 0

C30_Witness ==
    /\ pc = "solving"
    /\ Len(args.coeffs) = 1
    /\ args.bd_cond = <<>>
    /\ order_of(args.coeffs) = 0
    /\ bvpCalls = 1
    /\ bvp.y = <<>>

=============================================================================
